---- MODULE Spec2Model ----
(***************************************************************************)
(* A model of sbom-check (src/src/sbom_check/checks.py): check_sbom, the   *)
(* completeness rule engine check_completeness and the CheckResult it      *)
(* returns.                                                                *)
(*                                                                         *)
(* Strings that the code builds by concatenation (diagnostic messages) are *)
(* sequences of text fragments, so that a prefix such as the completeness  *)
(* marker, or a newline, is something a formula can look for.  Every other *)
(* string is a TLA+ string.                                                *)
(***************************************************************************)
EXTENDS Naturals, Sequences, FiniteSets, TLC

(* ---------------------------------------------------------------------- *)
(* Values                                                                 *)
(* ---------------------------------------------------------------------- *)

\* Python's None (an absent optional field).
None == "None"
\* spdx_tools' SpdxNoAssertion() and SpdxNone() sentinel objects.
SpdxNoAssertion == "NOASSERTION"
SpdxNone == "NONE"
\* The values that are instances of license_expression.LicenseExpression.
LicenseExpressions == {"BSD-3-Clause"}
\* RelationshipType members.
DESCRIBES == "DESCRIBES"
CONTAINS == "CONTAINS"
\* SpdxElementType members.
CREATION_INFO == "CREATION_INFO"
DOCUMENT == "DOCUMENT"
PACKAGE == "PACKAGE"
FILE == "FILE"

NL == "\n"
COMPLETENESS_EXCEPTION == <<NL, "*** completeness exception ***", NL>>
SPDX_VERSIONS == <<"SPDX-2.3">>

\* Python truthiness of an optional string or object: None and "" are falsy,
\* every object without __bool__/__len__ (Actor, Version, the sentinels) is truthy.
Truthy(value) == value \notin {None, ""}
\* isinstance(value, LicenseExpression)
IsLicenseExpression(value) == value \in LicenseExpressions
\* value in list
InList(value, list) == \E i \in 1..Len(list) : list[i] = value

(* ---------------------------------------------------------------------- *)
(* Diagnostics                                                            *)
(* ---------------------------------------------------------------------- *)

\* ValidationContext(spdx_id, parent_id, element_type, full_element)
ValidationContext(spdx_id, parent_id, element_type, full_element) ==
    [spdx_id |-> spdx_id, parent_id |-> parent_id,
     element_type |-> element_type, full_element |-> full_element]

\* ValidationMessage(validation_message, context)
ValidationMessage(validation_message, context) ==
    [validation_message |-> validation_message, context |-> context]

_create_custom_validation_message(message, element_type, spdx_id) ==
    ValidationMessage(COMPLETENESS_EXCEPTION \o message,
                      ValidationContext(spdx_id, None, element_type, None))

\* The message texts of the completeness rules, as the code spells them.
MSG_INVALID_VERSION ==
    <<"The Document uses an invalid version. Valid versions include: ",
      "['SPDX-2.3']", ".">>
MSG_NO_NAME == <<"The Document has no name.">>
MSG_NO_LICENSE_LIST_VERSION ==
    <<"The Document does not have a license list version.">>
MSG_NO_PACKAGES == <<"The Document contains no packages.">>
\* The count is written inside the string literal ("f{...}" instead of
\* f"{...}"), so the text is never interpolated.
MSG_DESCRIBES_COUNT ==
    <<"This SPDX Document has an incorrect number of DESCRIBES relationships. An SPDX document must directly describe one top-level package. This document describes ",
      "f{len(actual_describes_relationships)}", " packages.">>
MSG_DESCRIBES_TARGET ==
    <<"This SPDX Document's DESCRIBES relationship is to a a package other than the first in the package info section. Either the relationship is incorrect or the top-level package that the document is describing is not first in the packages collection.">>
MSG_NO_SUPPLIER == <<"This package has no supplier populated.">>
MSG_NOT_ANALYZED == <<"The files have not been analyzed for this package.">>
MSG_PACKAGE_NO_COPYRIGHT ==
    <<"This package has declared licenses but no copyright text populated.">>
MSG_NO_FILES == <<"The Document contains no files.">>
MSG_FILE_NO_NAME == <<"This file has no name.">>
MSG_FILE_NO_LICENSE_INFO ==
    <<"This file has a concluded license but license_info_in_file is not populated.">>
MSG_FILE_NO_COPYRIGHT ==
    <<"This file has a concluded license but no copyright text.">>

(* ---------------------------------------------------------------------- *)
(* The completeness rules                                                 *)
(* ---------------------------------------------------------------------- *)

\* Relationship(spdx_element_id, relationship_type, related_spdx_element_id),
\* comment defaulting to None; a dataclass, compared field by field.
Relationship(spdx_element_id, relationship_type, related_spdx_element_id) ==
    [spdx_element_id |-> spdx_element_id,
     relationship_type |-> relationship_type,
     related_spdx_element_id |-> related_spdx_element_id,
     comment |-> None]

_check_creation_info(creation_info) ==
    (IF ~InList(creation_info.spdx_version, SPDX_VERSIONS)
       THEN <<_create_custom_validation_message(MSG_INVALID_VERSION, CREATION_INFO, "")>>
       ELSE <<>>)
    \o
    (IF ~Truthy(creation_info.name)
       THEN <<_create_custom_validation_message(MSG_NO_NAME, CREATION_INFO, "")>>
       ELSE <<>>)
    \o
    (IF ~Truthy(creation_info.license_list_version)
       THEN <<_create_custom_validation_message(MSG_NO_LICENSE_LIST_VERSION, CREATION_INFO, "")>>
       ELSE <<>>)

\* Returns a sequence of zero or one message (None or a message in the code).
_check_has_packages(document) ==
    IF document.packages = <<>>
      THEN <<_create_custom_validation_message(MSG_NO_PACKAGES, DOCUMENT, "")>>
      ELSE <<>>

\* Returns a sequence of zero or one message (None or a message in the code).
_check_primary_package(document) ==
    LET primary_package_id == document.packages[1].spdx_id
        document_id == document.creation_info.spdx_id
        expected_describes_relationship ==
            Relationship(document_id, DESCRIBES, primary_package_id)
        actual_describes_relationships ==
            SelectSeq(document.relationships,
                      LAMBDA relationship : relationship.relationship_type = DESCRIBES)
    IN  IF Len(actual_describes_relationships) # 1
          THEN <<_create_custom_validation_message(MSG_DESCRIBES_COUNT, DOCUMENT, "")>>
          ELSE IF expected_describes_relationship # actual_describes_relationships[1]
                 THEN <<_create_custom_validation_message(MSG_DESCRIBES_TARGET, DOCUMENT, "")>>
                 ELSE <<>>

\* Mutant of _has_licenses: all() for any().
_has_licenses_all(license_concluded, license_declared) ==
    IsLicenseExpression(license_concluded) /\ IsLicenseExpression(license_declared)

_has_licenses(license_concluded, license_declared) ==
    IsLicenseExpression(license_concluded) \/ IsLicenseExpression(license_declared)

\* Mutant of PackageMessages: the analyzed check placed before the supplier check.
PackageMessages_analyzed_first(package) ==
    (IF ~package.files_analyzed
       THEN <<_create_custom_validation_message(MSG_NOT_ANALYZED, PACKAGE, package.spdx_id)>>
       ELSE <<>>)
    \o
    (IF ~Truthy(package.supplier) \/ package.supplier = SpdxNoAssertion
       THEN <<_create_custom_validation_message(MSG_NO_SUPPLIER, PACKAGE, package.spdx_id)>>
       ELSE <<>>)
    \o
    (IF _has_licenses(package.license_concluded, package.license_declared)
          /\ ~Truthy(package.copyright_text)
       THEN <<_create_custom_validation_message(MSG_PACKAGE_NO_COPYRIGHT, PACKAGE, package.spdx_id)>>
       ELSE <<>>)

\* The body of the loop of _check_packages: the messages of one package.
PackageMessages(package) ==
    (IF ~Truthy(package.supplier) \/ package.supplier = SpdxNoAssertion
       THEN <<_create_custom_validation_message(MSG_NO_SUPPLIER, PACKAGE, package.spdx_id)>>
       ELSE <<>>)
    \o
    (IF ~package.files_analyzed
       THEN <<_create_custom_validation_message(MSG_NOT_ANALYZED, PACKAGE, package.spdx_id)>>
       ELSE <<>>)
    \o
    (IF _has_licenses(package.license_concluded, package.license_declared)
          /\ ~Truthy(package.copyright_text)
       THEN <<_create_custom_validation_message(MSG_PACKAGE_NO_COPYRIGHT, PACKAGE, package.spdx_id)>>
       ELSE <<>>)

RECURSIVE _check_packages(_)
_check_packages(packages) ==
    IF packages = <<>> THEN <<>>
    ELSE PackageMessages(Head(packages)) \o _check_packages(Tail(packages))

\* Mutant of _check_has_files: the test inverted.
_check_has_files_inverted(document) ==
    IF document.files # <<>>
      THEN <<_create_custom_validation_message(MSG_NO_FILES, DOCUMENT, "")>>
      ELSE <<>>

\* Returns a sequence of zero or one message (None or a message in the code).
_check_has_files(document) ==
    IF document.files = <<>>
      THEN <<_create_custom_validation_message(MSG_NO_FILES, DOCUMENT, "")>>
      ELSE <<>>

\* Mutant of FileMessages: the `continue` for files without a concluded
\* license is missing.
FileMessages_without_continue(file) ==
    (IF ~Truthy(file.name)
       THEN <<_create_custom_validation_message(MSG_FILE_NO_NAME, FILE, file.spdx_id)>>
       ELSE <<>>)
    \o
    (IF file.license_info_in_file = <<>>
       THEN <<_create_custom_validation_message(MSG_FILE_NO_LICENSE_INFO, FILE, file.spdx_id)>>
       ELSE <<>>)
    \o
    (IF ~Truthy(file.copyright_text)
       THEN <<_create_custom_validation_message(MSG_FILE_NO_COPYRIGHT, FILE, file.spdx_id)>>
       ELSE <<>>)

\* The body of the loop of _check_files: the messages of one file.
FileMessages(file) ==
    (IF ~Truthy(file.name)
       THEN <<_create_custom_validation_message(MSG_FILE_NO_NAME, FILE, file.spdx_id)>>
       ELSE <<>>)
    \o
    (IF ~IsLicenseExpression(file.license_concluded)
       THEN <<>>
       ELSE (IF file.license_info_in_file = <<>>
               THEN <<_create_custom_validation_message(MSG_FILE_NO_LICENSE_INFO, FILE, file.spdx_id)>>
               ELSE <<>>)
            \o
            (IF ~Truthy(file.copyright_text)
               THEN <<_create_custom_validation_message(MSG_FILE_NO_COPYRIGHT, FILE, file.spdx_id)>>
               ELSE <<>>))

RECURSIVE _check_files(_)
_check_files(files) ==
    IF files = <<>> THEN <<>>
    ELSE FileMessages(Head(files)) \o _check_files(Tail(files))

\* Mutant of check_completeness: no `return` after the "no packages" message,
\* so that the file checks still run.
check_completeness_without_return(document) ==
    LET creation == _check_creation_info(document.creation_info)
        has_packages_msg == _check_has_packages(document)
        has_files_msg == _check_has_files(document)
        upto_packages ==
            IF has_packages_msg # <<>>
              THEN creation \o has_packages_msg
              ELSE creation \o _check_primary_package(document)
                            \o _check_packages(document.packages)
    IN  IF has_files_msg # <<>>
          THEN upto_packages \o has_files_msg
          ELSE upto_packages \o _check_files(document.files)

check_completeness(document) ==
    LET creation == _check_creation_info(document.creation_info)
        has_packages_msg == _check_has_packages(document)
    IN  IF has_packages_msg # <<>>
          THEN creation \o has_packages_msg
          ELSE LET upto_packages ==
                       creation \o _check_primary_package(document)
                                \o _check_packages(document.packages)
                   has_files_msg == _check_has_files(document)
               IN  IF has_files_msg # <<>>
                     THEN upto_packages \o has_files_msg
                     ELSE upto_packages \o _check_files(document.files)

(* ---------------------------------------------------------------------- *)
(* CheckResult                                                            *)
(* ---------------------------------------------------------------------- *)

\* The frozen dataclass CheckResult(_validation_messages, errors).
CheckResult(validation_messages_, errors) ==
    [_validation_messages |-> validation_messages_, errors |-> errors]

\* The CSV header fields.
SPDX_ID == "spdx_id"
PARENT_ID == "parent_id"
ELEMENT_TYPE == "element_type"
MESSAGE == "message"
CSV_HEADER == <<SPDX_ID, PARENT_ID, ELEMENT_TYPE, MESSAGE>>

\* value or "": None and "" give "".
OrEmpty(value) == IF Truthy(value) THEN value ELSE ""

\* str(element_type): the name of an Enum member after the name of its class;
\* "None" for None.
Str(element_type) ==
    IF element_type = None THEN "None" ELSE "SpdxElementType." \o element_type

\* text.replace("\n", ""): every newline removed.
RemoveNewlines(text) == SelectSeq(text, LAMBDA fragment : fragment # NL)

\* Python truthiness of a list.
TruthyList(list) == list # <<>>

\* Mutant of CheckResult_is_valid: all() for any().
CheckResult_is_valid_all(self) ==
    TruthyList(self._validation_messages) /\ TruthyList(self.errors)

\* The property CheckResult.is_valid.
CheckResult_is_valid(self) ==
    TruthyList(self._validation_messages) \/ TruthyList(self.errors)

_validation_message_to_dict(message) ==
    [spdx_id |-> OrEmpty(message.context.spdx_id),
     parent_id |-> OrEmpty(message.context.parent_id),
     element_type |-> Str(message.context.element_type),
     message |-> message.validation_message]

\* The property CheckResult.validation_messages.
CheckResult_validation_messages(self) ==
    [i \in 1..Len(self._validation_messages) |->
        _validation_message_to_dict(self._validation_messages[i])]

\* Mutant of CheckResult_csv_rows: the newlines of the message are kept.
CheckResult_csv_rows_keeps_newlines(self) ==
    <<CSV_HEADER>> \o
    [i \in 1..Len(self._validation_messages) |->
        LET message == CheckResult_validation_messages(self)[i]
        IN  <<message.spdx_id, message.parent_id, message.element_type,
              message.message>>]

\* The property CheckResult.csv_rows.
CheckResult_csv_rows(self) ==
    <<CSV_HEADER>> \o
    [i \in 1..Len(self._validation_messages) |->
        LET message == CheckResult_validation_messages(self)[i]
        IN  <<message.spdx_id, message.parent_id, message.element_type,
              RemoveNewlines(message.message)>>]

(* ---------------------------------------------------------------------- *)
(* Inputs                                                                 *)
(* ---------------------------------------------------------------------- *)

MaxPackages == 2
MaxFiles == 2
MaxRelationships == 2
MaxValidationMessages == 2
MaxErrors == 2

DOCUMENT_ID == "SPDXRef-DOCUMENT"
PackageIds == {"SPDXRef-A", "SPDXRef-B"}
FileIds == {"SPDXRef-F", "SPDXRef-G"}

\* All sequences over S of length at most n.
SeqsUpTo(S, n) == UNION {[1..len -> S] : len \in 0..n}

\* The sequences of length 1..n that hold one element of `domain` at some
\* position and elements of `samples` (a subset of `domain`) everywhere else.
FocusSeqs(domain, samples, n) ==
    UNION {{[i \in 1..len |-> IF i = k THEN e ELSE f[i]] :
               k \in 1..len, e \in domain, f \in [1..len -> samples]} :
           len \in 1..n}

\* CreationInfo: the parser requires spdx_version, name and spdx_id to be
\* strings; license_list_version is optional.
CreationInfos ==
    [spdx_version : {"SPDX-2.3", "SPDX-2.2"},
     name : {"", "Fake name"},
     license_list_version : {None, "3.20"},
     spdx_id : {DOCUMENT_ID}]

\* Package: the fields the rules read.
Packages ==
    [spdx_id : PackageIds,
     supplier : {None, SpdxNoAssertion, "Organization: Qualcomm"},
     files_analyzed : BOOLEAN,
     license_concluded : {None, SpdxNoAssertion, SpdxNone} \cup LicenseExpressions,
     license_declared : {None, SpdxNoAssertion} \cup LicenseExpressions,
     copyright_text : {None, "", SpdxNoAssertion, "Copyright Q"}]

\* File: the fields the rules read.
Files ==
    [spdx_id : FileIds,
     name : {"", "fakepath"},
     license_concluded : {None, SpdxNoAssertion, SpdxNone} \cup LicenseExpressions,
     license_info_in_file : {<<>>, <<"BSD-3-Clause">>},
     copyright_text : {None, "", SpdxNoAssertion, "Copyright Q"}]

\* Relationship, comment included.
Relationships ==
    [spdx_element_id : {DOCUMENT_ID, "SPDXRef-A"},
     relationship_type : {DESCRIBES, CONTAINS},
     related_spdx_element_id : PackageIds,
     comment : {None, "fake-comment"}]

GoodCreationInfo ==
    [spdx_version |-> "SPDX-2.3", name |-> "Fake name",
     license_list_version |-> "3.20", spdx_id |-> DOCUMENT_ID]
GoodPackage(spdx_id) ==
    [spdx_id |-> spdx_id, supplier |-> "Organization: Qualcomm",
     files_analyzed |-> TRUE, license_concluded |-> "BSD-3-Clause",
     license_declared |-> SpdxNoAssertion, copyright_text |-> "Copyright Q"]
BadPackage(spdx_id) ==
    [spdx_id |-> spdx_id, supplier |-> None,
     files_analyzed |-> FALSE, license_concluded |-> "BSD-3-Clause",
     license_declared |-> "BSD-3-Clause", copyright_text |-> None]
GoodFile(spdx_id) ==
    [spdx_id |-> spdx_id, name |-> "fakepath",
     license_concluded |-> "BSD-3-Clause",
     license_info_in_file |-> <<"BSD-3-Clause">>,
     copyright_text |-> "Copyright Q"]
BadFile(spdx_id) ==
    [spdx_id |-> spdx_id, name |-> "",
     license_concluded |-> "BSD-3-Clause",
     license_info_in_file |-> <<>>, copyright_text |-> None]

\* The package of the scenario of spec section 8: supplier populated, files not
\* analyzed, no license asserted.
ScenarioPackage ==
    [spdx_id |-> "SPDXRef-A", supplier |-> "Organization: Qualcomm",
     files_analyzed |-> FALSE, license_concluded |-> None,
     license_declared |-> None, copyright_text |-> None]

PackageSamples ==
    {GoodPackage("SPDXRef-A"), BadPackage("SPDXRef-A"), BadPackage("SPDXRef-B")}
FileSamples ==
    {GoodFile("SPDXRef-F"), BadFile("SPDXRef-F"), BadFile("SPDXRef-G")}

\* What the external validator validate_full_spdx_document may report: messages
\* without the completeness marker (the first is the one of the tests).
ValidatorMessages ==
    {ValidationMessage(
         <<"there must be at least one relationship ", "SPDXRef-DOCUMENT DESCRIBES ...">>,
         ValidationContext(DOCUMENT_ID, None, DOCUMENT, None)),
     ValidationMessage(
         <<"package must contain no elements if files_analyzed is False", NL>>,
         ValidationContext("SPDXRef-A", DOCUMENT_ID, PACKAGE, None))}

\* What SPDXParsingError.get_messages() may hold.
ParserErrors ==
    {"Error while parsing document None: ['CreationInfo does not exist.']",
     "Error while parsing Package"}

Document(creation_info, packages, files, relationships) ==
    [creation_info |-> creation_info, packages |-> packages,
     files |-> files, relationships |-> relationships]

\* A document that is complete but for its packages and files.
PackageDocument(packages, files) ==
    Document(GoodCreationInfo, packages, files,
             <<Relationship(DOCUMENT_ID, DESCRIBES, "SPDXRef-A")>>)

\* Documents that vary the relationships.
RelationshipDocuments ==
    {Document(GoodCreationInfo, packages, <<>>, relationships) :
       packages \in {<<GoodPackage("SPDXRef-A")>>,
                     <<BadPackage("SPDXRef-B"), GoodPackage("SPDXRef-A")>>},
       relationships \in SeqsUpTo(Relationships, MaxRelationships)}

\* Documents that vary the creation info, with and without packages and files.
CreationInfoDocuments ==
    {Document(creation_info, packages, files, relationships) :
       creation_info \in CreationInfos,
       packages \in {<<>>, <<GoodPackage("SPDXRef-A")>>, <<BadPackage("SPDXRef-B")>>,
                     <<ScenarioPackage>>},
       files \in SeqsUpTo(FileSamples, MaxFiles),
       relationships \in {<<>>,
                          <<Relationship(DOCUMENT_ID, DESCRIBES, "SPDXRef-A")>>,
                          <<Relationship("SPDXRef-A", DESCRIBES, "SPDXRef-B"),
                            Relationship(DOCUMENT_ID, CONTAINS, "SPDXRef-A")>>}}

\* The text handed to check_sbom, described by what the libraries make of it:
\* whether json.loads accepts it, whether JsonLikeDictParser accepts the
\* deserialized value (and the messages of its SPDXParsingError when it does
\* not), the Document it builds (a sequence of none or one), and what
\* validate_full_spdx_document reports for that Document.
SpdxJson(json, parse, errors, document, validation) ==
    [json |-> json, parse |-> parse, errors |-> errors,
     document |-> document, validation |-> validation]

\* The texts check_sbom is run on.
IsSpdxJsonText(text) ==
    \/ text = SpdxJson("invalid", None, <<>>, <<>>, <<>>)
    \/ \E errors \in SeqsUpTo(ParserErrors, MaxErrors) \ {<<>>} :
          text = SpdxJson("valid", "rejected", errors, <<>>, <<>>)
    \/ \E packages \in FocusSeqs(Packages, PackageSamples, MaxPackages),
          files \in {<<>>, <<BadFile("SPDXRef-F")>>},
          validation \in SeqsUpTo(ValidatorMessages, 1) :
          text = SpdxJson("valid", "document", <<>>,
                          <<PackageDocument(packages, files)>>, validation)
    \/ \E packages \in {<<GoodPackage("SPDXRef-A")>>, <<BadPackage("SPDXRef-B")>>},
          files \in FocusSeqs(Files, FileSamples, MaxFiles),
          validation \in SeqsUpTo(ValidatorMessages, 1) :
          text = SpdxJson("valid", "document", <<>>,
                          <<PackageDocument(packages, files)>>, validation)
    \/ \E document \in RelationshipDocuments,
          validation \in SeqsUpTo(ValidatorMessages, 1) :
          text = SpdxJson("valid", "document", <<>>, <<document>>, validation)
    \/ \E document \in CreationInfoDocuments,
          validation \in SeqsUpTo(ValidatorMessages, MaxValidationMessages) :
          text = SpdxJson("valid", "document", <<>>, <<document>>, validation)

(* ---------------------------------------------------------------------- *)
(* check_sbom as a state machine                                          *)
(* ---------------------------------------------------------------------- *)

VARIABLES
    spdx_json,            \* the argument of check_sbom
    pc,                   \* the position in check_sbom
    spdx_dict,            \* the value json.loads returned
    spdx_document,        \* the Document _parse_spdx returned
    validation_messages,  \* the list the validator returned, extended in place
    messages,             \* the list check_completeness returned
    result,               \* the CheckResult check_sbom returned
    exception,            \* the exception that left check_sbom
    calls,                \* the checks invoked on the document so far
    view                  \* the value of the property of result read last

\* The state of the command line application (src/src/cli/main.py).
VARIABLES
    spdx_folder,          \* the entries of the directory args.spdx_folder
    args,                 \* the parsed flags
    cli_pc,               \* the position in main
    results,              \* the dict run returned, in insertion order
    console,              \* what _print_results printed, file by file
    json_file,            \* what _output_json wrote to results.json
    csv_files             \* the files _output_csv wrote, in order

check_vars == <<spdx_json, pc, spdx_dict, spdx_document, validation_messages,
                messages, result, exception, calls, view>>
cli_vars == <<spdx_folder, args, cli_pc, results, console, json_file, csv_files>>
vars == <<check_vars, cli_vars>>

\* The application is not running: check_sbom is called as a library.
CliIdle ==
    /\ spdx_folder = <<>>
    /\ args = [spdx_folder |-> ".", print_console |-> FALSE, print_json |-> FALSE]
    /\ cli_pc = "idle"
    /\ results = <<>>
    /\ console = <<>>
    /\ json_file = <<>>
    /\ csv_files = <<>>

Init ==
    /\ IsSpdxJsonText(spdx_json)
    /\ pc = "json.loads"
    /\ spdx_dict = None
    /\ spdx_document = None
    /\ validation_messages = <<>>
    /\ messages = <<>>
    /\ result = None
    /\ exception = None
    /\ calls = {}
    /\ view = None
    /\ CliIdle

\* line 97: json.loads(spdx_json) returns the deserialized value.
JsonLoads ==
    /\ pc = "json.loads"
    /\ spdx_json.json = "valid"
    /\ spdx_dict' = [parse |-> spdx_json.parse, errors |-> spdx_json.errors,
                     document |-> spdx_json.document,
                     validation |-> spdx_json.validation]
    /\ pc' = "_parse_spdx"
    /\ UNCHANGED cli_vars
    /\ UNCHANGED <<view, spdx_json, spdx_document, validation_messages, messages,
                   result, exception, calls>>

\* line 97, outside the try block: json.loads raises json.JSONDecodeError,
\* which no handler of check_sbom catches.
JsonLoadsRaises ==
    /\ pc = "json.loads"
    /\ spdx_json.json = "invalid"
    /\ exception' = "JSONDecodeError"
    /\ pc' = "raised"
    /\ UNCHANGED cli_vars
    /\ UNCHANGED <<view, spdx_json, spdx_dict, spdx_document, validation_messages,
                   messages, result, calls>>

\* lines 98-99: _parse_spdx returns the Document.
ParseSpdx ==
    /\ pc = "_parse_spdx"
    /\ spdx_dict.parse = "document"
    /\ spdx_document' = spdx_dict.document[1]
    /\ pc' = "validate_full_spdx_document"
    /\ UNCHANGED cli_vars
    /\ UNCHANGED <<view, spdx_json, spdx_dict, validation_messages, messages,
                   result, exception, calls>>

\* Mutant of ParseSpdxRaises: the arguments of CheckResult swapped.
ParseSpdxRaises_swapped ==
    /\ pc = "_parse_spdx"
    /\ spdx_dict.parse = "rejected"
    /\ result' = CheckResult(spdx_dict.errors, <<>>)
    /\ pc' = "returned"
    /\ UNCHANGED cli_vars
    /\ UNCHANGED <<view, spdx_json, spdx_dict, spdx_document, validation_messages,
                   messages, exception, calls>>

\* lines 100-103: the parser raises SPDXParsingError; its messages are returned.
ParseSpdxRaises ==
    /\ pc = "_parse_spdx"
    /\ spdx_dict.parse = "rejected"
    /\ result' = CheckResult(<<>>, spdx_dict.errors)
    /\ pc' = "returned"
    /\ UNCHANGED cli_vars
    /\ UNCHANGED <<view, spdx_json, spdx_dict, spdx_document, validation_messages,
                   messages, exception, calls>>

\* line 107: the external validator reports its messages.
ValidateFullSpdxDocument ==
    /\ pc = "validate_full_spdx_document"
    /\ validation_messages' = spdx_dict.validation
    /\ calls' = calls \cup {"validate_full_spdx_document"}
    /\ pc' = "check_completeness"
    /\ UNCHANGED cli_vars
    /\ UNCHANGED <<view, spdx_json, spdx_dict, spdx_document, messages, result,
                   exception>>

\* Mutant of CheckCompleteness: the completeness messages put first.
CheckCompleteness_prepends ==
    /\ pc = "check_completeness"
    /\ messages' = check_completeness(spdx_document)
    /\ validation_messages' = messages' \o validation_messages
    /\ calls' = calls \cup {"check_completeness"}
    /\ pc' = "return"
    /\ UNCHANGED cli_vars
    /\ UNCHANGED <<view, spdx_json, spdx_dict, spdx_document, result, exception>>

\* line 110: validation_messages += check_completeness(spdx_document)
CheckCompleteness ==
    /\ pc = "check_completeness"
    /\ messages' = check_completeness(spdx_document)
    /\ validation_messages' = validation_messages \o messages'
    /\ calls' = calls \cup {"check_completeness"}
    /\ pc' = "return"
    /\ UNCHANGED cli_vars
    /\ UNCHANGED <<view, spdx_json, spdx_dict, spdx_document, result, exception>>

\* line 113: return CheckResult(validation_messages, [])
Return ==
    /\ pc = "return"
    /\ result' = CheckResult(validation_messages, <<>>)
    /\ pc' = "returned"
    /\ UNCHANGED cli_vars
    /\ UNCHANGED <<view, spdx_json, spdx_dict, spdx_document, validation_messages,
                   messages, exception, calls>>

\* The caller reads result.is_valid (lines 49-54).
IsValid ==
    /\ pc = "returned"
    /\ view' = CheckResult_is_valid(result)
    /\ pc' = "is_valid"
    /\ UNCHANGED cli_vars
    /\ UNCHANGED <<spdx_json, spdx_dict, spdx_document, validation_messages,
                   messages, result, exception, calls>>

\* The caller reads result.csv_rows (lines 66-77).
CsvRows ==
    /\ pc = "returned"
    /\ view' = CheckResult_csv_rows(result)
    /\ pc' = "csv_rows"
    /\ UNCHANGED cli_vars
    /\ UNCHANGED <<spdx_json, spdx_dict, spdx_document, validation_messages,
                   messages, result, exception, calls>>

Next ==
    \/ JsonLoads
    \/ JsonLoadsRaises
    \/ ParseSpdx
    \/ ParseSpdxRaises
    \/ ValidateFullSpdxDocument
    \/ CheckCompleteness
    \/ Return
    \/ IsValid
    \/ CsvRows

Spec == Init /\ [][Next]_vars

(* ---------------------------------------------------------------------- *)
(* The command line application                                           *)
(* ---------------------------------------------------------------------- *)

MaxDirectoryEntries == 2

SPDX_EXTENSION == ".spdx.json"

\* str.lower() of the suffixes of the model.
Lower(text) ==
    CASE text = ".SPDX.JSON" -> ".spdx.json"
      [] text = ".Spdx.Json" -> ".spdx.json"
      [] OTHER -> text

\* A path is a stem and a suffix; file.name is the two joined.
Name(file) == file.stem \o file.suffix

\* The values of the argument spdx_folder: the current directory and a
\* directory below it.
SpdxFolders == {".", "in"}

\* str(Path(path) / file.name): the leading "." of a path is dropped.
PathStr(path, file) ==
    IF path = "." THEN Name(file) ELSE path \o "/" \o Name(file)

\* file.name.lower().endswith(SPDX_EXTENSION), for a stem without a dot.
EndsWithSpdxExtension(file) == Lower(file.suffix) = SPDX_EXTENSION

\* check_sbom as a function of its argument, for a text json.loads accepts:
\* the CheckResult the state machine above returns.
check_sbom(text) ==
    IF text.parse = "rejected"
      THEN CheckResult(<<>>, text.errors)
      ELSE CheckResult(text.validation \o check_completeness(text.document[1]), <<>>)

\* The texts of the files of the directory: one without findings, one with
\* findings, one the parser rejects and one that is not JSON.
CleanText ==
    SpdxJson("valid", "document", <<>>,
             <<PackageDocument(<<GoodPackage("SPDXRef-A")>>, <<GoodFile("SPDXRef-F")>>)>>,
             <<>>)
FindingsText ==
    SpdxJson("valid", "document", <<>>,
             <<PackageDocument(<<BadPackage("SPDXRef-A")>>, <<>>)>>,
             <<CHOOSE m \in ValidatorMessages : m.context.element_type = PACKAGE>>)
RejectedText ==
    SpdxJson("valid", "rejected",
             <<"Error while parsing document None: ['CreationInfo does not exist.']">>,
             <<>>, <<>>)
InvalidText == SpdxJson("invalid", None, <<>>, <<>>, <<>>)

\* The entries directory.glob("*") may yield: regular files with an SPDX
\* suffix in any case, a file with another suffix, and a directory.
DirectoryEntries ==
    {[file |-> [stem |-> stem_suffix[1], suffix |-> stem_suffix[2]],
      is_file |-> TRUE, content |-> content] :
        stem_suffix \in {<<"a", ".spdx.json">>, <<"b", ".SPDX.JSON">>,
                         <<"c", ".Spdx.Json">>},
        content \in {CleanText, FindingsText, RejectedText, InvalidText}}
    \cup {[file |-> [stem |-> "notes", suffix |-> ".txt"],
           is_file |-> TRUE, content |-> CleanText],
          [file |-> [stem |-> "folder", suffix |-> ".spdx.json"],
           is_file |-> FALSE, content |-> CleanText]}

\* The second component of what _get_filenames(path) yields for an entry:
\* "" or the error text, which names the file by its whole path.
FilenameError(path, entry) ==
    IF entry.is_file /\ EndsWithSpdxExtension(entry.file)
      THEN ""
      ELSE "File " \o PathStr(path, entry.file) \o " not recognized. Please ensure your files are SPDX JSON format and end with '" \o SPDX_EXTENSION \o "'."

\* One iteration of the loop of run: the entry of the dict for one file.
RunEntry(spdx_root, entry) ==
    [filename |-> Name(entry.file),
     check_result |-> IF FilenameError(spdx_root, entry) # ""
                        THEN CheckResult(<<>>, <<FilenameError(spdx_root, entry)>>)
                        ELSE check_sbom(entry.content)]

\* run reaches a file whose text json.loads rejects.
RunRaisesOn(spdx_root, entry) ==
    FilenameError(spdx_root, entry) = "" /\ entry.content.json = "invalid"

\* run(spdx_root), for the entries the directory spdx_root holds.
RECURSIVE run(_, _)
run(spdx_root, entries) ==
    IF entries = <<>> THEN <<>>
    ELSE <<RunEntry(spdx_root, Head(entries))>> \o run(spdx_root, Tail(entries))

\* What _print_results prints for one file.
PrintResult(entry) ==
    IF ~CheckResult_is_valid(entry.check_result)
      THEN [filename |-> entry.filename, verdict |-> "is compliant.",
            items |-> <<>>]
      ELSE IF TruthyList(entry.check_result.errors)
             THEN [filename |-> entry.filename,
                   verdict |-> "is not compliant, as it could not be parsed.",
                   items |-> entry.check_result.errors]
             ELSE [filename |-> entry.filename,
                   verdict |-> "successfully parsed, but was not compliant with validation standards.",
                   items |-> CheckResult_validation_messages(entry.check_result)]

_print_results(results_) ==
    [i \in 1..Len(results_) |-> PrintResult(results_[i])]

_flattened_results(results_) ==
    [i \in 1..Len(results_) |->
        [filename |-> results_[i].filename,
         errors |-> results_[i].check_result.errors,
         validator_results |-> CheckResult_validation_messages(results_[i].check_result)]]

\* The files _output_csv writes: one for every result whose is_valid is false.
RECURSIVE _output_csv(_)
_output_csv(results_) ==
    IF results_ = <<>> THEN <<>>
    ELSE (IF ~CheckResult_is_valid(Head(results_).check_result)
            THEN <<[path |-> Head(results_).filename \o "_exceptions.csv",
                    rows |-> CheckResult_csv_rows(Head(results_).check_result)]>>
            ELSE <<>>)
         \o _output_csv(Tail(results_))

\* A directory holds entries of different names.
IsDirectory(entries) ==
    \A i, j \in 1..Len(entries) : i # j => Name(entries[i].file) # Name(entries[j].file)

InitCli ==
    /\ \E entries \in SeqsUpTo(DirectoryEntries, MaxDirectoryEntries) :
          IsDirectory(entries) /\ spdx_folder = entries
    /\ \E path \in SpdxFolders, print_console, print_json \in BOOLEAN :
          args = [spdx_folder |-> path, print_console |-> print_console,
                  print_json |-> print_json]
    /\ cli_pc = "run"
    /\ results = <<>>
    /\ console = <<>>
    /\ json_file = <<>>
    /\ csv_files = <<>>
    /\ spdx_json = None
    /\ pc = "idle"
    /\ spdx_dict = None
    /\ spdx_document = None
    /\ validation_messages = <<>>
    /\ messages = <<>>
    /\ result = None
    /\ exception = None
    /\ calls = {}
    /\ view = None

\* main line 43, run lines 54-68: every file of the directory is checked.
Run ==
    /\ cli_pc = "run"
    /\ \A i \in 1..Len(spdx_folder) : ~RunRaisesOn(args.spdx_folder, spdx_folder[i])
    /\ results' = run(args.spdx_folder, spdx_folder)
    /\ cli_pc' = "print_console"
    /\ UNCHANGED <<spdx_folder, args, console, json_file, csv_files>>
    /\ UNCHANGED check_vars

\* run line 67: check_sbom raises json.JSONDecodeError, which neither run nor
\* main catches.
RunRaises ==
    /\ cli_pc = "run"
    /\ \E i \in 1..Len(spdx_folder) : RunRaisesOn(args.spdx_folder, spdx_folder[i])
    /\ exception' = "JSONDecodeError"
    /\ cli_pc' = "raised"
    /\ UNCHANGED <<spdx_folder, args, results, console, json_file, csv_files>>
    /\ UNCHANGED <<spdx_json, pc, spdx_dict, spdx_document, validation_messages,
                   messages, result, calls, view>>

\* main lines 45-46
MainPrintConsole ==
    /\ cli_pc = "print_console"
    /\ console' = IF args.print_console THEN _print_results(results) ELSE console
    /\ cli_pc' = "print_json"
    /\ UNCHANGED <<spdx_folder, args, results, json_file, csv_files>>
    /\ UNCHANGED check_vars

\* main lines 48-49
MainPrintJson ==
    /\ cli_pc = "print_json"
    /\ json_file' = IF args.print_json THEN _flattened_results(results) ELSE json_file
    /\ cli_pc' = "output_csv"
    /\ UNCHANGED <<spdx_folder, args, results, console, csv_files>>
    /\ UNCHANGED check_vars

\* main line 51
MainOutputCsv ==
    /\ cli_pc = "output_csv"
    /\ csv_files' = _output_csv(results)
    /\ cli_pc' = "exit"
    /\ UNCHANGED <<spdx_folder, args, results, console, json_file>>
    /\ UNCHANGED check_vars

NextCli ==
    \/ Run
    \/ RunRaises
    \/ MainPrintConsole
    \/ MainPrintJson
    \/ MainOutputCsv

SpecCli == InitCli /\ [][NextCli]_vars

(* ---------------------------------------------------------------------- *)
(* Vocabulary of the properties                                           *)
(* ---------------------------------------------------------------------- *)

\* check_completeness has returned: `messages` is its result for spdx_document.
CompletenessReturned == "check_completeness" \in calls

\* The diagnostic with this text, element type and subject identifier.
Diagnostic(text, element_type, spdx_id) ==
    [validation_message |-> COMPLETENESS_EXCEPTION \o text,
     context |-> [spdx_id |-> spdx_id, parent_id |-> None,
                  element_type |-> element_type, full_element |-> None]]

HasMarker(message) ==
    /\ Len(message.validation_message) >= Len(COMPLETENESS_EXCEPTION)
    /\ SubSeq(message.validation_message, 1, Len(COMPLETENESS_EXCEPTION))
           = COMPLETENESS_EXCEPTION

\* The text of a diagnostic after the marker.
Text(message) ==
    SubSeq(message.validation_message, Len(COMPLETENESS_EXCEPTION) + 1,
           Len(message.validation_message))

Scoped(list, element_type) ==
    SelectSeq(list, LAMBDA m : m.context.element_type = element_type)

\* How many diagnostics of `list` have this text, scope and subject.
Count(list, text, element_type, spdx_id) ==
    Len(SelectSeq(list, LAMBDA m : m = Diagnostic(text, element_type, spdx_id)))

\* How many elements of a sequence satisfy a condition.
HowMany(elements, Cond(_)) == Len(SelectSeq(elements, Cond))

\* The diagnostics of the primary-package step: the DOCUMENT diagnostics
\* other than "no packages" and "no files".
PrimaryDiagnostics(list) ==
    SelectSeq(list, LAMBDA m : /\ m.context.element_type = DOCUMENT
                               /\ Text(m) \notin {MSG_NO_PACKAGES, MSG_NO_FILES})

\* The DESCRIBES relationships whose source is the document identifier.
DescribesFromDocument(document) ==
    SelectSeq(document.relationships,
              LAMBDA r : /\ r.relationship_type = DESCRIBES
                         /\ r.spdx_element_id = document.creation_info.spdx_id)

\* The count-mismatch text with the count written out.
DescribesCountText(n) ==
    <<MSG_DESCRIBES_COUNT[1], ToString(n), MSG_DESCRIBES_COUNT[3]>>

GenuineLicense(value) == value \notin {None, SpdxNoAssertion, SpdxNone}
EmptyText(value) == value \in {None, ""}

(* ---------------------------------------------------------------------- *)
(* C1                                                                     *)
(* ---------------------------------------------------------------------- *)

\* C1: for a document without packages, check_completeness returns a list
\* whose last element is the DOCUMENT "contains no packages" diagnostic, which
\* is its only DOCUMENT diagnostic (so no primary-package and no "no files"
\* diagnostic), and which holds no PACKAGE and no FILE diagnostic, whatever
\* the files and relationships are.
C1_NoPackagesStops ==
    (CompletenessReturned /\ spdx_document.packages = <<>>) =>
        /\ messages # <<>>
        /\ messages[Len(messages)] = Diagnostic(MSG_NO_PACKAGES, DOCUMENT, "")
        /\ Len(Scoped(messages, DOCUMENT)) = 1
        /\ Scoped(messages, PACKAGE) = <<>>
        /\ Scoped(messages, FILE) = <<>>
        /\ \A i \in 1..Len(messages) :
              Text(messages[i]) \notin
                  {MSG_NO_FILES, MSG_DESCRIBES_COUNT, MSG_DESCRIBES_TARGET}

\* A document without packages but with files and relationships was checked.
C1_Witness ==
    /\ CompletenessReturned
    /\ spdx_document.packages = <<>>
    /\ Len(spdx_document.files) >= 1
    /\ Len(spdx_document.relationships) >= 1
    /\ Len(messages) >= 2

(* ---------------------------------------------------------------------- *)
(* C2                                                                     *)
(* ---------------------------------------------------------------------- *)

\* C2: with packages present, when the number of DESCRIBES relationships from
\* the document identifier is not one, the primary-package step emits exactly
\* one DOCUMENT diagnostic, the count mismatch stating that number, and no
\* target mismatch.
C2_CountMismatchStatesCount ==
    (CompletenessReturned /\ spdx_document.packages # <<>>) =>
        LET n == Len(DescribesFromDocument(spdx_document))
        IN  n # 1 =>
              PrimaryDiagnostics(messages)
                  = <<Diagnostic(DescribesCountText(n), DOCUMENT, "")>>

(* ---------------------------------------------------------------------- *)
(* C3                                                                     *)
(* ---------------------------------------------------------------------- *)

\* C3: with packages present and exactly one DESCRIBES relationship from the
\* document identifier, the target mismatch is emitted iff the target of that
\* relationship differs from the spdx_id of the first package; the
\* primary-package step never emits more than one diagnostic.
C3_TargetMismatchIffTargetDiffers ==
    (CompletenessReturned /\ spdx_document.packages # <<>>) =>
        /\ Len(PrimaryDiagnostics(messages)) <= 1
        /\ LET from_document == DescribesFromDocument(spdx_document)
           IN  Len(from_document) = 1 =>
                 (Count(messages, MSG_DESCRIBES_TARGET, DOCUMENT, "") = 1
                    <=> from_document[1].related_spdx_element_id
                            # spdx_document.packages[1].spdx_id)

(* ---------------------------------------------------------------------- *)
(* C4                                                                     *)
(* ---------------------------------------------------------------------- *)

SupplierMissing(package) == package.supplier \in {None, SpdxNoAssertion}
NotAnalyzed(package) == package.files_analyzed = FALSE
EvidenceMissing(package) ==
    /\ GenuineLicense(package.license_concluded)
          \/ GenuineLicense(package.license_declared)
    /\ EmptyText(package.copyright_text)

\* The PACKAGE or FILE diagnostics of `list` that carry this identifier.
Carrying(list, element_type, spdx_id) ==
    SelectSeq(list, LAMBDA m : /\ m.context.element_type = element_type
                               /\ m.context.spdx_id = spdx_id)

Indicator(condition) == IF condition THEN 1 ELSE 0

\* C4 as stated: for every package, the PACKAGE diagnostics carrying its
\* spdx_id are exactly one supplier diagnostic iff its supplier is missing, one
\* analyzed diagnostic iff its files are not analyzed, and one license-evidence
\* diagnostic iff it asserts a license without copyright text.
C4_PackageDiagnosticsOfEachPackage ==
    (CompletenessReturned /\ spdx_document.packages # <<>>) =>
        \A i \in 1..Len(spdx_document.packages) :
            LET package == spdx_document.packages[i]
                own == Carrying(messages, PACKAGE, package.spdx_id)
            IN  /\ Count(own, MSG_NO_SUPPLIER, PACKAGE, package.spdx_id)
                       = Indicator(SupplierMissing(package))
                /\ Count(own, MSG_NOT_ANALYZED, PACKAGE, package.spdx_id)
                       = Indicator(NotAnalyzed(package))
                /\ Count(own, MSG_PACKAGE_NO_COPYRIGHT, PACKAGE, package.spdx_id)
                       = Indicator(EvidenceMissing(package))
                /\ Len(own) = Indicator(SupplierMissing(package))
                                + Indicator(NotAnalyzed(package))
                                + Indicator(EvidenceMissing(package))

\* C4 as amended: for every spdx_id, the PACKAGE diagnostics carrying it are
\* exactly one supplier diagnostic per package with that spdx_id whose supplier
\* is missing, one analyzed diagnostic per such package whose files are not
\* analyzed, and one license-evidence diagnostic per such package that asserts
\* a license without copyright text; every PACKAGE diagnostic carries the
\* spdx_id of a package.  For a package whose spdx_id no other package shares
\* this is C4 as stated.
C4_PackageDiagnosticsPerSpdxId ==
    (CompletenessReturned /\ spdx_document.packages # <<>>) =>
        /\ \A i \in 1..Len(spdx_document.packages) :
            LET spdx_id == spdx_document.packages[i].spdx_id
                sharing == SelectSeq(spdx_document.packages,
                                     LAMBDA p : p.spdx_id = spdx_id)
                own == Carrying(messages, PACKAGE, spdx_id)
            IN  /\ Count(own, MSG_NO_SUPPLIER, PACKAGE, spdx_id)
                       = HowMany(sharing, SupplierMissing)
                /\ Count(own, MSG_NOT_ANALYZED, PACKAGE, spdx_id)
                       = HowMany(sharing, NotAnalyzed)
                /\ Count(own, MSG_PACKAGE_NO_COPYRIGHT, PACKAGE, spdx_id)
                       = HowMany(sharing, EvidenceMissing)
                /\ Len(own) = HowMany(sharing, SupplierMissing)
                                + HowMany(sharing, NotAnalyzed)
                                + HowMany(sharing, EvidenceMissing)
        /\ \A k \in 1..Len(messages) :
              messages[k].context.element_type = PACKAGE =>
                  \E i \in 1..Len(spdx_document.packages) :
                      spdx_document.packages[i].spdx_id = messages[k].context.spdx_id

\* Two packages share a spdx_id; one of them asserts no license, has no
\* copyright text and no supplier, and gets the supplier diagnostic only.
C4_Witness ==
    /\ CompletenessReturned
    /\ Len(spdx_document.packages) = 2
    /\ spdx_document.packages[1].spdx_id = spdx_document.packages[2].spdx_id
    /\ LET package == spdx_document.packages[1]
       IN  /\ package.supplier = SpdxNoAssertion
           /\ package.files_analyzed
           /\ package.license_concluded = SpdxNoAssertion
           /\ package.license_declared = None
           /\ package.copyright_text = ""
    /\ SupplierMissing(spdx_document.packages[2])
    /\ Count(messages, MSG_NO_SUPPLIER, PACKAGE, spdx_document.packages[1].spdx_id) = 2

(* ---------------------------------------------------------------------- *)
(* C5                                                                     *)
(* ---------------------------------------------------------------------- *)

NameMissing(file) == file.name = ""
LicenseInfoMissing(file) ==
    GenuineLicense(file.license_concluded) /\ file.license_info_in_file = <<>>
CopyrightMissing(file) ==
    GenuineLicense(file.license_concluded) /\ EmptyText(file.copyright_text)

\* C5: when the per-file checks run, every file gets a name diagnostic iff its
\* name is empty, a license-info diagnostic iff its concluded license is a
\* genuine expression and license_info_in_file is empty, and a copyright
\* diagnostic iff its concluded license is a genuine expression and its
\* copyright text is empty (counted per spdx_id, as files may share one); a
\* file without a genuine concluded license gets neither of the last two; the
\* FILE diagnostics are these and each carries the spdx_id of its file.
C5_FileDiagnostics ==
    (CompletenessReturned /\ spdx_document.packages # <<>>
                          /\ spdx_document.files # <<>>) =>
        /\ \A i \in 1..Len(spdx_document.files) :
            LET spdx_id == spdx_document.files[i].spdx_id
                sharing == SelectSeq(spdx_document.files,
                                     LAMBDA f : f.spdx_id = spdx_id)
                own == Carrying(messages, FILE, spdx_id)
            IN  /\ Count(own, MSG_FILE_NO_NAME, FILE, spdx_id)
                       = HowMany(sharing, NameMissing)
                /\ Count(own, MSG_FILE_NO_LICENSE_INFO, FILE, spdx_id)
                       = HowMany(sharing, LicenseInfoMissing)
                /\ Count(own, MSG_FILE_NO_COPYRIGHT, FILE, spdx_id)
                       = HowMany(sharing, CopyrightMissing)
                /\ Len(own) = HowMany(sharing, NameMissing)
                                + HowMany(sharing, LicenseInfoMissing)
                                + HowMany(sharing, CopyrightMissing)
        /\ \A k \in 1..Len(messages) :
              messages[k].context.element_type = FILE =>
                  \E i \in 1..Len(spdx_document.files) :
                      spdx_document.files[i].spdx_id = messages[k].context.spdx_id

\* A file with an empty name, no concluded license, no license_info_in_file
\* and no copyright text was checked and got the name diagnostic only.
C5_Witness ==
    /\ CompletenessReturned
    /\ spdx_document.packages # <<>>
    /\ Len(spdx_document.files) = 1
    /\ LET file == spdx_document.files[1]
       IN  /\ file.name = ""
           /\ file.license_concluded = SpdxNoAssertion
           /\ file.license_info_in_file = <<>>
           /\ file.copyright_text = None
           /\ Scoped(messages, FILE)
                  = <<Diagnostic(MSG_FILE_NO_NAME, FILE, file.spdx_id)>>

(* ---------------------------------------------------------------------- *)
(* C6                                                                     *)
(* ---------------------------------------------------------------------- *)

\* C6: with packages but no files, the result ends with the one DOCUMENT
\* "contains no files" diagnostic, holds no FILE diagnostic, and before it
\* holds what the creation-info, primary-package and per-package checks report;
\* with files present there is no "contains no files" diagnostic.
C6_NoFilesStops ==
    (CompletenessReturned /\ spdx_document.packages # <<>>) =>
        IF spdx_document.files = <<>>
          THEN /\ messages # <<>>
               /\ messages[Len(messages)] = Diagnostic(MSG_NO_FILES, DOCUMENT, "")
               /\ Count(messages, MSG_NO_FILES, DOCUMENT, "") = 1
               /\ Scoped(messages, FILE) = <<>>
               /\ SubSeq(messages, 1, Len(messages) - 1)
                     = _check_creation_info(spdx_document.creation_info)
                          \o _check_primary_package(spdx_document)
                          \o _check_packages(spdx_document.packages)
          ELSE \A k \in 1..Len(messages) : Text(messages[k]) # MSG_NO_FILES

\* A document with packages and no files was checked, and creation-info,
\* primary-package and package diagnostics precede "contains no files".
C6_Witness ==
    /\ CompletenessReturned
    /\ spdx_document.packages # <<>>
    /\ spdx_document.files = <<>>
    /\ Scoped(messages, CREATION_INFO) # <<>>
    /\ Scoped(messages, PACKAGE) # <<>>
    /\ Len(Scoped(messages, DOCUMENT)) = 2

(* ---------------------------------------------------------------------- *)
(* C7                                                                     *)
(* ---------------------------------------------------------------------- *)

When(condition, text, element_type, spdx_id) ==
    IF condition THEN <<Diagnostic(text, element_type, spdx_id)>> ELSE <<>>

\* The blocks of one stage, element after element.
RECURSIVE InSequenceOrder(_, _)
InSequenceOrder(Block(_), elements) ==
    IF elements = <<>> THEN <<>>
    ELSE Block(Head(elements)) \o InSequenceOrder(Block, Tail(elements))

CreationInfoStage(creation_info) ==
    When(creation_info.spdx_version # "SPDX-2.3", MSG_INVALID_VERSION, CREATION_INFO, "")
    \o When(creation_info.name = "", MSG_NO_NAME, CREATION_INFO, "")
    \o When(creation_info.license_list_version = None,
            MSG_NO_LICENSE_LIST_VERSION, CREATION_INFO, "")

PackageBlock(package) ==
    When(SupplierMissing(package), MSG_NO_SUPPLIER, PACKAGE, package.spdx_id)
    \o When(NotAnalyzed(package), MSG_NOT_ANALYZED, PACKAGE, package.spdx_id)
    \o When(EvidenceMissing(package), MSG_PACKAGE_NO_COPYRIGHT, PACKAGE, package.spdx_id)

FileBlock(file) ==
    When(NameMissing(file), MSG_FILE_NO_NAME, FILE, file.spdx_id)
    \o When(LicenseInfoMissing(file), MSG_FILE_NO_LICENSE_INFO, FILE, file.spdx_id)
    \o When(CopyrightMissing(file), MSG_FILE_NO_COPYRIGHT, FILE, file.spdx_id)

\* The document of the scenario of spec section 8.
ScenarioDocument ==
    Document([spdx_version |-> "SPDX-2.3", name |-> "",
              license_list_version |-> None, spdx_id |-> DOCUMENT_ID],
             <<ScenarioPackage>>, <<>>,
             <<Relationship(DOCUMENT_ID, DESCRIBES, ScenarioPackage.spdx_id)>>)

\* C7: the result of check_completeness is, in this order: the creation-info
\* diagnostics (version, name, license-list version); the "no packages"
\* diagnostic, or else the primary-package diagnostic (at most one); the
\* PACKAGE diagnostics package by package (supplier, analyzed, license
\* evidence); the "no files" diagnostic, or else the FILE diagnostics file by
\* file (name, license info, copyright).  For the scenario document it is
\* exactly [name-empty, no-license-list-version, analyzed-false, no-files].
C7_StageOrder ==
    CompletenessReturned =>
        /\ Len(PrimaryDiagnostics(messages)) <= 1
        /\ messages =
             CreationInfoStage(spdx_document.creation_info)
             \o (IF spdx_document.packages = <<>>
                   THEN <<Diagnostic(MSG_NO_PACKAGES, DOCUMENT, "")>>
                   ELSE PrimaryDiagnostics(messages)
                        \o InSequenceOrder(PackageBlock, spdx_document.packages)
                        \o (IF spdx_document.files = <<>>
                              THEN <<Diagnostic(MSG_NO_FILES, DOCUMENT, "")>>
                              ELSE InSequenceOrder(FileBlock, spdx_document.files)))
        /\ spdx_document = ScenarioDocument =>
             messages = <<Diagnostic(MSG_NO_NAME, CREATION_INFO, ""),
                          Diagnostic(MSG_NO_LICENSE_LIST_VERSION, CREATION_INFO, ""),
                          Diagnostic(MSG_NOT_ANALYZED, PACKAGE, "SPDXRef-A"),
                          Diagnostic(MSG_NO_FILES, DOCUMENT, "")>>

\* The scenario document was checked and gave four diagnostics.
C7_Witness ==
    /\ CompletenessReturned
    /\ spdx_document = ScenarioDocument
    /\ Len(messages) = 4

(* ---------------------------------------------------------------------- *)
(* C8                                                                     *)
(* ---------------------------------------------------------------------- *)

\* C8: in a CheckResult that check_sbom returned, errors is non-empty only if
\* the parser rejected the document, and then the diagnostics are empty; on a
\* rejection the errors are the parser's messages, and neither the validator
\* nor check_completeness was invoked.
C8_ErrorsOnlyOnRejection ==
    pc = "returned" =>
        /\ result.errors # <<>> => spdx_dict.parse = "rejected"
        /\ result.errors # <<>> => result._validation_messages = <<>>
        /\ spdx_dict.parse = "rejected" =>
              /\ result.errors = spdx_json.errors
              /\ calls = {}

\* A rejected document was answered with the two messages of the parser.
C8_Witness ==
    /\ pc = "returned"
    /\ spdx_dict.parse = "rejected"
    /\ Len(spdx_json.errors) = 2
    /\ result = CheckResult(<<>>, spdx_json.errors)

(* ---------------------------------------------------------------------- *)
(* C9                                                                     *)
(* ---------------------------------------------------------------------- *)

\* C9: when the text is not valid JSON, check_sbom ends by returning a
\* CheckResult with exactly one parse error and no diagnostics; no exception
\* leaves it.
C9_InvalidJsonIsReturned ==
    (spdx_json.json = "invalid" /\ pc # "json.loads") =>
        /\ pc = "returned"
        /\ exception = None
        /\ Len(result.errors) = 1
        /\ result._validation_messages = <<>>

(* ---------------------------------------------------------------------- *)
(* C10                                                                    *)
(* ---------------------------------------------------------------------- *)

\* C10: in a CheckResult returned for a parsed document, the diagnostics are
\* the validator's messages, unaltered and in its order, followed by the
\* messages of check_completeness in its order; no diagnostic with the
\* completeness marker precedes one without it, and every completeness
\* diagnostic carries the marker.
C10_ValidatorThenCompleteness ==
    (pc = "returned" /\ spdx_dict.parse = "document") =>
        LET diagnostics == result._validation_messages
            validator == spdx_json.validation
        IN  /\ result.errors = <<>>
            /\ Len(diagnostics) = Len(validator) + Len(messages)
            /\ SubSeq(diagnostics, 1, Len(validator)) = validator
            /\ SubSeq(diagnostics, Len(validator) + 1, Len(diagnostics)) = messages
            /\ \A k \in 1..Len(messages) : HasMarker(messages[k])
            /\ \A i, j \in 1..Len(diagnostics) :
                  (i < j /\ HasMarker(diagnostics[i])) => HasMarker(diagnostics[j])

\* A result with two validator messages followed by two completeness messages.
C10_Witness ==
    /\ pc = "returned"
    /\ spdx_dict.parse = "document"
    /\ Len(spdx_json.validation) = 2
    /\ spdx_json.validation[1] # spdx_json.validation[2]
    /\ Len(messages) >= 2
    /\ Len(result._validation_messages) = Len(messages) + 2

(* ---------------------------------------------------------------------- *)
(* C11                                                                    *)
(* ---------------------------------------------------------------------- *)

\* The CheckResult as check_sbom built it, from what it held at its return.
ResultAsReturned ==
    IF spdx_dict.parse = "rejected"
      THEN [_validation_messages |-> <<>>, errors |-> spdx_json.errors]
      ELSE [_validation_messages |-> validation_messages, errors |-> <<>>]

\* C11: csv_rows of a CheckResult with N diagnostics (parse-error results
\* included) has N+1 rows; the first is the header [spdx_id, parent_id,
\* element_type, message]; row i+1 holds the spdx_id and parent_id of
\* diagnostic i ("" when absent), its element type as a string and its message
\* with every newline removed and nothing else changed; the CheckResult is
\* left as it was returned.
C11_CsvRows ==
    pc = "csv_rows" =>
        LET diagnostics == result._validation_messages
        IN  /\ Len(view) = Len(diagnostics) + 1
            /\ view[1] = <<"spdx_id", "parent_id", "element_type", "message">>
            /\ \A i \in 1..Len(diagnostics) :
                  LET row == view[i + 1]
                      context == diagnostics[i].context
                      text == diagnostics[i].validation_message
                  IN  /\ Len(row) = 4
                      /\ row[1] = (IF context.spdx_id = None THEN "" ELSE context.spdx_id)
                      /\ row[2] = (IF context.parent_id = None THEN "" ELSE context.parent_id)
                      /\ row[3] = "SpdxElementType." \o context.element_type
                      /\ \A k \in 1..Len(row[4]) : row[4][k] # NL
                      /\ Len(row[4]) = Len(text) - HowMany(text, LAMBDA fragment : fragment = NL)
                      /\ \A k \in 1..Len(row[4]) :
                            \E j \in k..Len(text) :
                                /\ text[j] = row[4][k]
                                /\ HowMany(SubSeq(text, 1, j), LAMBDA fragment : fragment # NL) = k
            /\ result = ResultAsReturned

\* csv_rows was read from a result with a validator message that ends in a
\* newline and at least two completeness messages.
C11_Witness ==
    /\ pc = "csv_rows"
    /\ Len(result._validation_messages) >= 3
    /\ \E i \in 1..Len(result._validation_messages) :
          LET text == result._validation_messages[i].validation_message
          IN  ~HasMarker(result._validation_messages[i]) /\ text[Len(text)] = NL
    /\ Len(view) = Len(result._validation_messages) + 1

(* ---------------------------------------------------------------------- *)
(* C12                                                                    *)
(* ---------------------------------------------------------------------- *)

Unreadable(check_result) == check_result.errors # <<>>
Incomplete(check_result) ==
    check_result._validation_messages # <<>> /\ check_result.errors = <<>>
Clean(check_result) ==
    check_result._validation_messages = <<>> /\ check_result.errors = <<>>

\* C12: is_valid is true iff the diagnostics or the errors are non-empty; a
\* result is unreadable, incomplete or clean, exactly one of the three, and
\* the flag is false for the clean one only.
C12_IsValidMeansHasFindings ==
    pc = "is_valid" =>
        /\ view = TRUE <=> (result._validation_messages # <<>> \/ result.errors # <<>>)
        /\ Indicator(Unreadable(result)) + Indicator(Incomplete(result))
              + Indicator(Clean(result)) = 1
        /\ view = FALSE <=> Clean(result)

\* is_valid was read from a clean result and is false.
C12_Witness ==
    /\ pc = "is_valid"
    /\ Clean(result)
    /\ "check_completeness" \in calls
    /\ view = FALSE


(* ---------------------------------------------------------------------- *)
(* C13  the exceptions CSV of the command line application                *)
(* ---------------------------------------------------------------------- *)

\* _output_csv wrote "<filename>_exceptions.csv".
CsvWritten(filename) ==
    \E i \in 1..Len(csv_files) : csv_files[i].path = filename \o "_exceptions.csv"

\* _print_results reported the file as compliant.
ReportedCompliant(filename) ==
    \E i \in 1..Len(console) :
        console[i].filename = filename /\ console[i].verdict = "is compliant."

\* C13: when main has finished, "<filename>_exceptions.csv" has been written
\* exactly for the files whose CheckResult has findings (is_valid true), which
\* are exactly the files _print_results does not report as compliant: a clean
\* result never produces an exceptions CSV and a result with diagnostics
\* always does.
C13_CsvExactlyForFindings ==
    cli_pc = "exit" =>
        \A i \in 1..Len(results) :
            /\ CsvWritten(results[i].filename)
                  <=> CheckResult_is_valid(results[i].check_result)
            /\ args.print_console =>
                  (CsvWritten(results[i].filename)
                     <=> ~ReportedCompliant(results[i].filename))

====
